---- MODULE Spec2Model ----
(***************************************************************************)
(* Driver dispatch of the food-delivery application: the Delivery and      *)
(* DriverAvailability rows, the handlers that change them, the assignment  *)
(* service with its read and write steps, and the task fallback helper.    *)
(* Handlers run in autocommit mode (no transaction or row lock is taken in *)
(* the delivery application), so a request handler is one step and the     *)
(* background assignment job is a sequence of steps that other requests    *)
(* may interleave with.                                                    *)
(***************************************************************************)
EXTENDS Integers, Sequences, FiniteSets, TLC

VARIABLES orders, deliveries, availability, jobs, now, ENABLE_CELERY,
          timeoutFired, reassignCalls

vars == <<orders, deliveries, availability, jobs, now, ENABLE_CELERY,
          timeoutFired, reassignCalls>>

(* ------------------------------ bounds -------------------------------- *)

MaxJobs == 2

MaxClock == 1

MaxStat == 2

MaxChecks == 1

(* ---------------------------- constants ------------------------------- *)

max_retries == 3

DELIVERY_ASSIGNMENT_TIMEOUT == 300

TickSeconds == 300

radius_km == 10

Null == "none"

Orders == {"o1"}
\* Every order in the database: the order followed above and a second one.
AllOrders == Orders \cup {"o2"}

DriverSeq == <<"d1", "d2">>

Drivers == {DriverSeq[i] : i \in 1..Len(DriverSeq)}

Jobs == 1..MaxJobs

OrderStatuses == {"pending", "confirmed", "preparing", "ready",
                  "out_for_delivery", "delivered", "cancelled"}

STATUS_CHOICES == {"pending", "assigned", "accepted", "picked_up", "en_route",
                   "arrived", "delivered", "cancelled", "failed"}

ActiveStatuses == {"assigned", "accepted", "picked_up", "en_route"}

NoteNoDrivers == "No drivers online - requires manual assignment"

NoteBusy == "All drivers busy - requires manual assignment"

ManualNotes == {NoteNoDrivers, NoteBusy}

(* ------------------------- values and helpers ------------------------- *)

\* A nullable number is <<>> (None) or <<n>>.
None == <<>>

Some(n) == <<n>>

\* Python truthiness of a nullable Decimal: None and 0 are both false.
Truthy(c) == c # None /\ c[1] # 0

Abs(n) == IF n < 0 THEN 0 - n ELSE n

\* Distance in whole kilometres between two points whose coordinates are
\* given in kilometres of arc; symmetric and zero on equal points.
calculate_distance(lat1, lon1, lat2, lon2) == Abs(lat2 - lat1) + Abs(lon2 - lon1)

NoRow == [exists |-> FALSE, driver |-> Null, status |-> "pending",
          driver_notes |-> "", assigned_at |-> None]

\* The row Delivery.objects.get_or_create makes on order confirmation.
PendingRow == [NoRow EXCEPT !.exists = TRUE]

(* ------------------------------ matcher ------------------------------- *)

active_delivery_count(d, dels) ==
    Cardinality({o \in AllOrders : dels[o].exists /\ dels[o].driver = d
                                /\ dels[o].status \in ActiveStatuses})

OnlineVerifiedActive(av, d) ==
    av[d].is_online /\ av[d].is_verified_driver /\ av[d].is_active

online_drivers_count(av) == Cardinality({d \in Drivers : OnlineVerifiedActive(av, d)})

TrulyAvailable_FlagOnly(av, dels, d) ==
    /\ OnlineVerifiedActive(av, d)
    /\ av[d].is_available

TrulyAvailable(av, dels, d) ==
    /\ OnlineVerifiedActive(av, d)
    /\ (av[d].is_available \/ active_delivery_count(d, dels) = 0)

HasLocation(a) == Truthy(a.current_latitude) /\ Truthy(a.current_longitude)

PenaltyDistance_FullRadius(radius) == radius

PenaltyDistance(radius) == (radius * 8) \div 10

CandidateDistance(a, rlat, rlon, radius) ==
    IF HasLocation(a)
    THEN calculate_distance(rlat[1], rlon[1], a.current_latitude[1], a.current_longitude[1])
    ELSE PenaltyDistance(radius)

Nearby(av, dels, rlat, rlon, radius, d) ==
    /\ TrulyAvailable(av, dels, d)
    /\ (HasLocation(av[d]) => CandidateDistance(av[d], rlat, rlon, radius) <= radius)

Candidate(av, rlat, rlon, radius, d) ==
    [driver |-> d, rating |-> av[d].average_rating,
     distance |-> CandidateDistance(av[d], rlat, rlon, radius)]

\* The sort key (-average_rating, distance), ascending.
KeyLess_DistanceFirst(c1, c2) ==
    \/ c1.distance < c2.distance
    \/ (c1.distance = c2.distance /\ c1.rating > c2.rating)

KeyLess(c1, c2) ==
    \/ c1.rating > c2.rating
    \/ (c1.rating = c2.rating /\ c1.distance < c2.distance)

RECURSIVE InsertSorted(_, _)
InsertSorted(c, s) ==
    IF s = <<>> THEN <<c>>
    ELSE IF KeyLess(Head(s), c) THEN <<Head(s)>> \o InsertSorted(c, Tail(s))
    ELSE <<c>> \o s

\* list.sort is stable: equal keys keep the order of the query.
RECURSIVE SortStable(_)
SortStable(s) ==
    IF s = <<>> THEN <<>> ELSE InsertSorted(Head(s), SortStable(Tail(s)))

RECURSIVE CandidateList(_, _, _, _, _, _)
CandidateList(ds, av, dels, rlat, rlon, radius) ==
    IF ds = <<>> THEN <<>>
    ELSE (IF Nearby(av, dels, rlat, rlon, radius, Head(ds))
          THEN <<Candidate(av, rlat, rlon, radius, Head(ds))>> ELSE <<>>)
         \o CandidateList(Tail(ds), av, dels, rlat, rlon, radius)

\* calculate_distance applies float() to the pickup point: a None pickup
\* coordinate raises as soon as one considered driver has a location.
FindRaises(av, dels, rlat, rlon) ==
    /\ (rlat = None \/ rlon = None)
    /\ \E d \in Drivers : TrulyAvailable(av, dels, d) /\ HasLocation(av[d])

find_available_drivers(av, dels, rlat, rlon, radius) ==
    SortStable(CandidateList(DriverSeq, av, dels, rlat, rlon, radius))

(* --------------------------- model methods ---------------------------- *)

\* Delivery.assign_to_driver
assign_to_driver(row, d, t) ==
    [row EXCEPT !.driver = d, !.status = "assigned", !.assigned_at = Some(t)]

\* Delivery.accept_delivery: the row, and the driver's availability row.
accept_delivery(row) == [row EXCEPT !.status = "accepted"]

accept_delivery_availability(av, row) ==
    IF row.driver # Null THEN [av EXCEPT ![row.driver].is_available = FALSE] ELSE av

\* Delivery.mark_picked_up / mark_en_route / mark_delivered: the status write.
mark_picked_up(row) == [row EXCEPT !.status = "picked_up"]

mark_en_route(row) == [row EXCEPT !.status = "en_route"]

mark_delivered(row) == [row EXCEPT !.status = "delivered"]

\* DriverAvailability.increment_deliveries(successful=True)
increment_deliveries(a) ==
    [a EXCEPT !.total_deliveries = @ + 1, !.successful_deliveries = @ + 1]

\* The tail of Delivery.mark_delivered: restore the driver if still online,
\* then count the delivery.
mark_delivered_availability(av, row) ==
    IF row.driver = Null THEN av
    ELSE LET a == av[row.driver]
             b == IF a.is_online THEN [a EXCEPT !.is_available = TRUE] ELSE a
         IN [av EXCEPT ![row.driver] = increment_deliveries(b)]

\* DriverAvailability.go_online / go_offline
go_online(a) == [a EXCEPT !.is_online = TRUE, !.is_available = TRUE]

go_offline(a) == [a EXCEPT !.is_online = FALSE, !.is_available = FALSE]

(* --------------------------- task fallback ---------------------------- *)

\* run_task_safe: which tier receives the work, as the number of times the
\* work is handed to the queue, to a fallback thread and to an inline call.
run_task_safe_FallsThrough(enable_celery, delay_ok, thread_ok) ==
    LET queued == IF enable_celery /\ delay_ok THEN 1 ELSE 0
        thread == IF thread_ok THEN 1 ELSE 0
        inline == IF ~thread_ok THEN 1 ELSE 0
    IN [queued |-> queued, thread |-> thread, inline |-> inline]

run_task_safe(enable_celery, delay_ok, thread_ok) ==
    LET queued == IF enable_celery /\ delay_ok THEN 1 ELSE 0
        fallback == queued = 0
        thread == IF fallback /\ thread_ok THEN 1 ELSE 0
        inline == IF fallback /\ ~thread_ok THEN 1 ELSE 0
    IN [queued |-> queued, thread |-> thread, inline |-> inline]

\* The value run_task_safe returns: True once the task is queued or the
\* thread is started; on the inline tier True unless sync_func raised.
run_task_safe_returns(dispatch, raised) ==
    IF dispatch.inline = 1 THEN ~raised ELSE TRUE

\* process_delivery_assignment catches every exception and returns a dict:
\* as sync_func it never raises.
SyncFuncRaises(result) == FALSE

IdleJob == [pc |-> "idle", order |-> Null,
            dispatch |-> [queued |-> 0, thread |-> 0, inline |-> 0],
            retries |-> 0, countdown |-> 0, snap |-> NoRow, best |-> Null,
            result |-> "none", retry |-> FALSE, wrote |-> FALSE]

HasFreeJob == \E j \in Jobs : jobs[j].pc = "idle"

FreeJob == CHOOSE j \in Jobs :
              jobs[j].pc = "idle" /\ \A k \in Jobs : jobs[k].pc = "idle" => j <= k

\* run_task_safe(assign_delivery_async, process_delivery_assignment, order.id)
Spawn(js, o, delay_ok, thread_ok) ==
    [js EXCEPT ![FreeJob] =
        [IdleJob EXCEPT !.pc = "start", !.order = o,
                        !.dispatch = run_task_safe(ENABLE_CELERY, delay_ok, thread_ok)]]

OnQueue(job) == job.dispatch.queued = 1

\* process_delivery_assignment's current_retry: the task passes
\* self.request.retries, the fallback tiers call with the default 0.
current_retry(job) == IF OnQueue(job) THEN job.retries ELSE 0

\* The retry test of process_delivery_assignment.
RetriesExhausted_OffByOne(cur) == cur > max_retries

RetriesExhausted(cur) == cur >= max_retries

Countdown_NoOffset(retries) == 30 * retries

Countdown(retries) == 30 * (retries + 1)

\* The end of one attempt. assign_delivery_async returns a success, re-queues
\* a retryable failure (Celery refuses once retries reached max_retries) and
\* returns any other failure; a fallback tier drops the returned dict.
Finish(job, result, retry) ==
    LET done == [job EXCEPT !.pc = "done", !.result = result, !.retry = retry,
                            !.snap = NoRow, !.best = Null]
    IN IF OnQueue(job) /\ retry /\ job.retries < max_retries
       THEN [done EXCEPT !.pc = "start", !.retries = @ + 1,
                         !.countdown = Countdown(job.retries)]
       ELSE done

(* ------------------------- assignment service ------------------------- *)

\* Step 2 of process_delivery_assignment: the existing-delivery test.
AlreadyAssigned_OnlyAssigned(row) ==
    row.exists /\ row.driver # Null /\ row.status = "assigned"

AlreadyAssigned(row) == row.exists /\ row.driver # Null /\ row.status # "pending"

\* _mark_for_manual_assignment
mark_for_manual_assignment(row, note) ==
    IF row.exists
    THEN [row EXCEPT !.status = "pending", !.driver_notes = note]
    ELSE [PendingRow EXCEPT !.driver_notes = note]

PickupKnown(order) == Truthy(order.rlat) /\ Truthy(order.rlon)

\* The row assign_delivery_to_driver saves: every field of the instance it
\* read, with driver, status and assigned_at replaced.
AssignedRow(snap, d, t) ==
    [snap EXCEPT !.exists = TRUE, !.driver = d, !.status = "assigned",
                 !.assigned_at = Some(t)]

\* What an automatic assignment does to the chosen driver's availability
\* row: nothing ("Don't mark driver as busy yet - wait for acceptance").
AssignmentAvailability_MarkBusy(av, d) == [av EXCEPT ![d].is_available = FALSE]

AssignmentAvailability(av, d) == av

PdaCheckExisting(j) ==
    /\ jobs[j].pc = "start"
    /\ LET row == deliveries[jobs[j].order]
       IN jobs' = [jobs EXCEPT ![j] =
                     IF AlreadyAssigned(row)
                     THEN Finish(jobs[j], "already_assigned", FALSE)
                     ELSE [jobs[j] EXCEPT !.pc = "checked"]]
    /\ UNCHANGED <<orders, deliveries, availability, now, ENABLE_CELERY,
                   timeoutFired, reassignCalls>>

\* A failed attempt: mark for manual assignment once the retries are used up.
PdaFail(j, error, note) ==
    LET o == jobs[j].order
    IN IF RetriesExhausted(current_retry(jobs[j]))
       THEN /\ deliveries' = [deliveries EXCEPT
                                 ![o] = mark_for_manual_assignment(@, note)]
            /\ jobs' = [jobs EXCEPT ![j] = Finish(@, error, FALSE)]
       ELSE /\ deliveries' = deliveries
            /\ jobs' = [jobs EXCEPT ![j] = Finish(@, error, TRUE)]

\* Steps 3 and 4 up to the choice of the driver: the count of online
\* drivers, then the reads of assign_delivery_to_driver.
PdaMatch(j) ==
    /\ jobs[j].pc = "checked"
    /\ LET o == jobs[j].order
           row == deliveries[o]
           cands == find_available_drivers(availability, deliveries,
                                           orders[o].rlat, orders[o].rlon, radius_km)
       IN IF online_drivers_count(availability) = 0
          THEN PdaFail(j, "No drivers online", NoteNoDrivers)
          ELSE IF row.exists /\ row.driver # Null
          THEN \E notify_ok \in BOOLEAN :
                 /\ jobs' = [jobs EXCEPT ![j] =
                               IF notify_ok THEN Finish(@, "assigned", FALSE)
                               ELSE Finish(@, "exception", TRUE)]
                 /\ deliveries' = deliveries
          ELSE IF ~PickupKnown(orders[o]) \/ cands = <<>>
          THEN PdaFail(j, "All drivers busy", NoteBusy)
          ELSE /\ jobs' = [jobs EXCEPT ![j] =
                             [@ EXCEPT !.pc = "write", !.snap = row,
                                       !.best = cands[1].driver]]
               /\ deliveries' = deliveries
    /\ UNCHANGED <<orders, availability, now, ENABLE_CELERY, timeoutFired,
                   reassignCalls>>

\* The delivery row after a notification raised: the service catches the
\* exception and returns a retryable failure; the save is already committed
\* (no transaction surrounds it) and nothing undoes it.
AfterNotifyFailure_RolledBack(written, before) == before

AfterNotifyFailure(written, before) == written

\* The write of assign_delivery_to_driver, the order save and the
\* notifications; a notification that raises is caught by the service.
PdaWrite(j) ==
    /\ jobs[j].pc = "write"
    /\ LET o == jobs[j].order
           job == jobs[j]
       IN IF ~job.snap.exists /\ deliveries[o].exists
          THEN \* the one-to-one constraint rejects a second row
               /\ jobs' = [jobs EXCEPT ![j] = Finish(@, "exception", TRUE)]
               /\ UNCHANGED <<deliveries, orders, availability>>
          ELSE \E notify_ok \in BOOLEAN :
               /\ deliveries' = [deliveries EXCEPT
                                    ![o] = IF notify_ok
                                           THEN AssignedRow(job.snap, job.best, now)
                                           ELSE AfterNotifyFailure(
                                                  AssignedRow(job.snap, job.best, now),
                                                  deliveries[o])]
               /\ availability' = AssignmentAvailability(availability, job.best)
               /\ orders' = [orders EXCEPT ![o].status = "confirmed"]
               /\ jobs' = [jobs EXCEPT ![j] =
                             IF notify_ok
                             THEN [Finish(@, "assigned", FALSE) EXCEPT !.wrote = TRUE]
                             ELSE [Finish(@, "exception", TRUE) EXCEPT !.wrote = TRUE]]
    /\ UNCHANGED <<now, ENABLE_CELERY, timeoutFired, reassignCalls>>

(* ---------------------------- reassignment ---------------------------- *)

\* reassign_delivery, first write: the previous driver is made available.
ReleasePrevious_Skipped(av, row) == av

ReleasePrevious(av, row) ==
    IF row.driver # Null THEN [av EXCEPT ![row.driver].is_available = TRUE] ELSE av

\* reassign_delivery with an empty candidate list: the row it saves.
NoCandidateRow_KeepsDriver(row) == [row EXCEPT !.status = "pending"]

NoCandidateRow(row) == [row EXCEPT !.status = "pending", !.driver = Null]

\* reassign_delivery, second write: the delivery row. The search reads the
\* availability rows after the release; when it raises, the row is not saved.
ReassignedRow(av, dels, o, t) ==
    LET row == dels[o]
        released == ReleasePrevious(av, row)
        cands == find_available_drivers(released, dels, orders[o].rlat,
                                        orders[o].rlon, radius_km)
    IN IF FindRaises(released, dels, orders[o].rlat, orders[o].rlon) THEN row
       ELSE IF cands = <<>> THEN NoCandidateRow(row)
       ELSE [row EXCEPT !.driver = cands[1].driver, !.status = "assigned",
                        !.assigned_at = Some(t)]

\* What reassign_delivery returns: None without a candidate, else the
\* delivery (here the order it belongs to).
reassign_delivery_returns(av, dels, o) ==
    LET released == ReleasePrevious(av, dels[o])
        cands == find_available_drivers(released, dels, orders[o].rlat,
                                        orders[o].rlon, radius_km)
    IN IF cands = <<>> THEN Null ELSE o

\* The availability rows after reassign_delivery: the release, and what the
\* assignment to the new driver does to that driver's row.
ReassignedAvailability(av, dels, o, t) ==
    LET released == ReleasePrevious(av, dels[o])
        row == ReassignedRow(av, dels, o, t)
    IN IF ~FindRaises(released, dels, orders[o].rlat, orders[o].rlon)
          /\ row.driver # Null
       THEN AssignmentAvailability(released, row.driver)
       ELSE released

(* ------------------------------ handlers ------------------------------ *)

\* Delivery.objects.get_or_create(order=order, defaults={'status': 'pending', ...})
get_or_create(row) == IF row.exists THEN row ELSE PendingRow

\* OrderViewSet.confirm
ConfirmOrder(o) ==
    /\ orders[o].status = "pending"
    /\ HasFreeJob
    /\ \E delay_ok \in BOOLEAN, thread_ok \in BOOLEAN :
          jobs' = Spawn(jobs, o, delay_ok, thread_ok)
    /\ orders' = [orders EXCEPT ![o].status = "confirmed"]
    /\ deliveries' = [deliveries EXCEPT ![o] = get_or_create(@)]
    /\ UNCHANGED <<availability, now, ENABLE_CELERY, timeoutFired, reassignCalls>>

\* order_update_status_view: the vendor sets any status; pending -> confirmed
\* starts the assignment, out_for_delivery marks the delivery en route.
VendorUpdateStatus(o, new_status) ==
    LET old_status == orders[o].status
    IN /\ new_status # old_status
       /\ orders' = [orders EXCEPT ![o].status = new_status]
       /\ IF new_status = "confirmed" /\ old_status = "pending"
          THEN /\ HasFreeJob
               /\ \E delay_ok \in BOOLEAN, thread_ok \in BOOLEAN :
                     jobs' = Spawn(jobs, o, delay_ok, thread_ok)
               /\ deliveries' = [deliveries EXCEPT ![o] = get_or_create(@)]
          ELSE IF new_status = "out_for_delivery" /\ deliveries[o].exists
                  /\ deliveries[o].status # "en_route"
          THEN /\ deliveries' = [deliveries EXCEPT ![o] = mark_en_route(@)]
               /\ jobs' = jobs
          ELSE UNCHANGED <<deliveries, jobs>>
       /\ UNCHANGED <<availability, now, ENABLE_CELERY, timeoutFired, reassignCalls>>

\* DriverAvailability.go_online (admin action set_online, availability views)
GoOnline(d) ==
    /\ ~availability[d].is_online
    /\ availability' = [availability EXCEPT ![d] = go_online(@)]
    /\ UNCHANGED <<orders, deliveries, jobs, now, ENABLE_CELERY, timeoutFired,
                   reassignCalls>>

\* DriverAvailability.go_offline
GoOffline(d) ==
    /\ availability[d].is_online
    /\ availability' = [availability EXCEPT ![d] = go_offline(@)]
    /\ UNCHANGED <<orders, deliveries, jobs, now, ENABLE_CELERY, timeoutFired,
                   reassignCalls>>

\* admin_views.deactivate_driver: the account loses is_verified_driver and
\* is_active, and the availability row goes offline.
DeactivateDriver(d) ==
    /\ availability' = [availability EXCEPT
                           ![d] = go_offline([@ EXCEPT !.is_verified_driver = FALSE,
                                                       !.is_active = FALSE])]
    /\ UNCHANGED <<orders, deliveries, jobs, now, ENABLE_CELERY, timeoutFired,
                   reassignCalls>>

\* get_object_or_404(Delivery, id=delivery_id, driver=request.user)
OwnDelivery(d, o) == deliveries[o].exists /\ deliveries[o].driver = d

\* api_views.accept_delivery
ApiAcceptDelivery(d, o) ==
    /\ OwnDelivery(d, o)
    /\ deliveries[o].status = "assigned"
    /\ deliveries' = [deliveries EXCEPT ![o] = accept_delivery(@)]
    /\ availability' = accept_delivery_availability(availability, deliveries[o])
    /\ orders' = [orders EXCEPT ![o].status = "confirmed"]
    /\ UNCHANGED <<jobs, now, ENABLE_CELERY, timeoutFired, reassignCalls>>

\* api_views.reject_delivery: the driver is made available, then
\* reassign_delivery runs.
ApiRejectDelivery(d, o) ==
    /\ OwnDelivery(d, o)
    /\ deliveries[o].status = "assigned"
    /\ LET av1 == [availability EXCEPT ![d].is_available = TRUE]
       IN /\ availability' = ReassignedAvailability(av1, deliveries, o, now)
          /\ deliveries' = [deliveries EXCEPT
                               ![o] = ReassignedRow(av1, deliveries, o, now)]
    /\ UNCHANGED <<orders, jobs, now, ENABLE_CELERY, timeoutFired, reassignCalls>>

\* The model method a status-update endpoint calls for each accepted value.
MarkStatus(row, new_status) ==
    IF new_status = "picked_up" THEN mark_picked_up(row)
    ELSE IF new_status = "en_route" THEN mark_en_route(row)
    ELSE mark_delivered(row)

UpdatableStatuses == {"picked_up", "en_route", "delivered"}

OrderStatusAfter(new_status) ==
    IF new_status = "delivered" THEN "delivered" ELSE "out_for_delivery"

\* views.update_delivery_status (driver/update-status/)
UpdateDeliveryStatus(d, o, new_status) ==
    /\ OwnDelivery(d, o)
    /\ new_status \in UpdatableStatuses
    /\ new_status = "delivered" => availability[d].total_deliveries < MaxStat
    /\ deliveries' = [deliveries EXCEPT ![o] = MarkStatus(@, new_status)]
    /\ orders' = [orders EXCEPT ![o].status = OrderStatusAfter(new_status)]
    /\ availability' = IF new_status = "delivered"
                       THEN mark_delivered_availability(availability, deliveries[o])
                       ELSE availability
    /\ UNCHANGED <<jobs, now, ENABLE_CELERY, timeoutFired, reassignCalls>>

\* api_views.update_delivery_status: after mark_delivered the view makes the
\* driver available and counts the delivery once more.
ApiDeliveredAvailability(av, d) ==
    [av EXCEPT ![d] = increment_deliveries([@ EXCEPT !.is_available = TRUE])]

ApiUpdateDeliveryStatus(d, o, new_status) ==
    /\ OwnDelivery(d, o)
    /\ new_status \in UpdatableStatuses
    /\ new_status = "delivered" => availability[d].total_deliveries + 1 < MaxStat
    /\ deliveries' = [deliveries EXCEPT ![o] = MarkStatus(@, new_status)]
    /\ orders' = [orders EXCEPT ![o].status = OrderStatusAfter(new_status)]
    /\ availability' =
          IF new_status = "delivered"
          THEN ApiDeliveredAvailability(
                   mark_delivered_availability(availability, deliveries[o]), d)
          ELSE availability
    /\ UNCHANGED <<jobs, now, ENABLE_CELERY, timeoutFired, reassignCalls>>

\* driver_views.accept_delivery
HasOtherActive(d, o) ==
    \E p \in AllOrders \ {o} : deliveries[p].exists /\ deliveries[p].driver = d
                            /\ deliveries[p].status \in ActiveStatuses

DriverAcceptDelivery(d, o) ==
    /\ availability[d].is_verified_driver
    /\ deliveries[o].exists
    /\ deliveries[o].status \in {"pending", "assigned"}
    /\ ~(deliveries[o].driver # Null /\ deliveries[o].driver # d)
    /\ ~HasOtherActive(d, o)
    /\ LET row == IF deliveries[o].status = "pending"
                  THEN assign_to_driver(deliveries[o], d, now)
                  ELSE deliveries[o]
       IN /\ deliveries' = [deliveries EXCEPT ![o] = accept_delivery(row)]
          /\ availability' = accept_delivery_availability(availability, row)
    /\ UNCHANGED <<orders, jobs, now, ENABLE_CELERY, timeoutFired, reassignCalls>>

\* driver_views.mark_picked_up
DriverMarkPickedUp(d, o) ==
    /\ availability[d].is_verified_driver
    /\ OwnDelivery(d, o)
    /\ deliveries[o].status # "picked_up"
    /\ deliveries' = [deliveries EXCEPT ![o] = mark_picked_up(@)]
    /\ UNCHANGED <<orders, availability, jobs, now, ENABLE_CELERY, timeoutFired,
                   reassignCalls>>

\* driver_views.mark_delivered
DriverMarkDelivered(d, o) ==
    /\ availability[d].is_verified_driver
    /\ OwnDelivery(d, o)
    /\ availability[d].total_deliveries < MaxStat
    /\ deliveries' = [deliveries EXCEPT ![o] = mark_delivered(@)]
    /\ orders' = [orders EXCEPT ![o].status = "delivered"]
    /\ availability' = mark_delivered_availability(availability, deliveries[o])
    /\ UNCHANGED <<jobs, now, ENABLE_CELERY, timeoutFired, reassignCalls>>

\* admin_views.assign_driver_manually
AssignDriverManually(o, d) ==
    /\ deliveries[o].exists
    /\ availability[d].is_verified_driver
    /\ deliveries' = [deliveries EXCEPT ![o] = assign_to_driver(@, d, now)]
    /\ availability' = [availability EXCEPT ![d].is_available = FALSE]
    /\ orders' = [orders EXCEPT ![o].status = "confirmed"]
    /\ UNCHANGED <<jobs, now, ENABLE_CELERY, timeoutFired, reassignCalls>>

\* check_assignment_timeout, on a delivery still assigned after the timeout.
\* core.utils.websocket_notifications defines no
\* notify_driver_delivery_reassigned, so the import inside the driver branch
\* raises ImportError and the task ends before reassign_delivery is called.
TimedOut(row, t) ==
    /\ row.status = "assigned"
    /\ row.assigned_at # None
    /\ t - row.assigned_at[1] >= DELIVERY_ASSIGNMENT_TIMEOUT

CheckAssignmentTimeout(o) ==
    /\ deliveries[o].exists
    /\ TimedOut(deliveries[o], now)
    /\ timeoutFired[o] < MaxChecks
    /\ timeoutFired' = [timeoutFired EXCEPT ![o] = @ + 1]
    /\ IF deliveries[o].driver # Null
       THEN UNCHANGED <<deliveries, availability, reassignCalls>>
       ELSE /\ reassignCalls' = [reassignCalls EXCEPT ![o] = @ + 1]
            /\ availability' = ReassignedAvailability(availability, deliveries, o, now)
            /\ deliveries' = [deliveries EXCEPT
                                 ![o] = ReassignedRow(availability, deliveries, o, now)]
    /\ UNCHANGED <<orders, jobs, now, ENABLE_CELERY>>

\* reassign_delivery called on a delivery that is still assigned, the state
\* in which both of its callers call it.
ReassignDelivery(o) ==
    /\ deliveries[o].exists
    /\ deliveries[o].status = "assigned"
    /\ reassignCalls[o] < MaxChecks
    /\ reassignCalls' = [reassignCalls EXCEPT ![o] = @ + 1]
    /\ availability' = ReassignedAvailability(availability, deliveries, o, now)
    /\ deliveries' = [deliveries EXCEPT
                         ![o] = ReassignedRow(availability, deliveries, o, now)]
    /\ UNCHANGED <<orders, jobs, now, ENABLE_CELERY, timeoutFired>>

\* A request in flight: the handler has read its rows and has not written
\* yet. It holds the delivery instance it read and the requesting driver.
InFlight(kind, o, d, row) ==
    [IdleJob EXCEPT !.pc = kind, !.order = o, !.best = d, !.snap = row]

\* driver_views.accept_delivery up to its checks: the delivery is read with
\* status pending or assigned, is not another driver's, and the driver has
\* no other active delivery.
AcceptBegin(d, o) ==
    /\ availability[d].is_verified_driver
    /\ deliveries[o].exists
    /\ deliveries[o].status \in {"pending", "assigned"}
    /\ ~(deliveries[o].driver # Null /\ deliveries[o].driver # d)
    /\ ~HasOtherActive(d, o)
    /\ HasFreeJob
    /\ jobs' = [jobs EXCEPT ![FreeJob] = InFlight("accepting", o, d, deliveries[o])]
    /\ UNCHANGED <<orders, deliveries, availability, now, ENABLE_CELERY,
                   timeoutFired, reassignCalls>>

\* The instance driver_views.accept_delivery holds after assign_to_driver.
AcceptInstance(snap, d, t) ==
    IF snap.status = "pending" THEN assign_to_driver(snap, d, t) ELSE snap

\* The row after the saves of assign_to_driver (update_fields driver, status,
\* assigned_at) and of accept_delivery (update_fields status, accepted_at):
\* the named columns of the instance replace those of the stored row.
AcceptedRow(db, snap, d, t) ==
    IF snap.status = "pending"
    THEN [db EXCEPT !.driver = d, !.status = "accepted", !.assigned_at = Some(t)]
    ELSE [db EXCEPT !.status = "accepted"]

\* driver_views.accept_delivery, the writes: nothing is read again and no
\* row is locked.
AcceptFinish(j) ==
    /\ jobs[j].pc = "accepting"
    /\ LET o == jobs[j].order
           d == jobs[j].best
           snap == jobs[j].snap
       IN /\ deliveries' = [deliveries EXCEPT ![o] = AcceptedRow(@, snap, d, now)]
          /\ availability' = accept_delivery_availability(
                                 availability, AcceptInstance(snap, d, now))
    /\ jobs' = [jobs EXCEPT ![j] = IdleJob]
    /\ UNCHANGED <<orders, now, ENABLE_CELERY, timeoutFired, reassignCalls>>

\* api_views.reject_delivery up to its status check.
RejectBegin(d, o) ==
    /\ OwnDelivery(d, o)
    /\ deliveries[o].status = "assigned"
    /\ HasFreeJob
    /\ jobs' = [jobs EXCEPT ![FreeJob] = InFlight("rejecting", o, d, deliveries[o])]
    /\ UNCHANGED <<orders, deliveries, availability, now, ENABLE_CELERY,
                   timeoutFired, reassignCalls>>

\* api_views.reject_delivery after the check: the driver is made available
\* and reassign_delivery reads the delivery afresh, without testing its
\* status.
RejectFinish(j) ==
    /\ jobs[j].pc = "rejecting"
    /\ LET o == jobs[j].order
           av1 == [availability EXCEPT ![jobs[j].best].is_available = TRUE]
       IN /\ availability' = ReassignedAvailability(av1, deliveries, o, now)
          /\ deliveries' = [deliveries EXCEPT
                               ![o] = ReassignedRow(av1, deliveries, o, now)]
    /\ jobs' = [jobs EXCEPT ![j] = IdleJob]
    /\ UNCHANGED <<orders, now, ENABLE_CELERY, timeoutFired, reassignCalls>>

\* The passing of time between requests.
Tick ==
    /\ now < MaxClock * TickSeconds
    /\ now' = now + TickSeconds
    /\ UNCHANGED <<orders, deliveries, availability, jobs, ENABLE_CELERY,
                   timeoutFired, reassignCalls>>

(* --------------------------- specification ---------------------------- *)

\* The row the post_save signal creates for a verified driver, with a
\* location and a rating the driver has since received.
InitialAvailability(lat, rating) ==
    [is_online |-> FALSE, is_available |-> TRUE, is_verified_driver |-> TRUE,
     is_active |-> TRUE, current_latitude |-> lat, current_longitude |-> Some(3),
     average_rating |-> rating, total_deliveries |-> 0,
     successful_deliveries |-> 0]

\* Two driver pools: a near driver with a lower-rated driver of unknown
\* location, and a driver out of range with a near one.
DriverPools ==
    { [d \in Drivers |-> IF d = "d1" THEN InitialAvailability(Some(7), 48)
                                     ELSE InitialAvailability(None, 42)],
      [d \in Drivers |-> IF d = "d1" THEN InitialAvailability(Some(30), 48)
                                     ELSE InitialAvailability(Some(7), 48)] }

PickupLatitudes == {None, Some(6)}

\* An order placed and not confirmed: it has no delivery row yet.
PlacedOrder == [status |-> "pending", rlat |-> Some(6), rlon |-> Some(3)]

Init ==
    /\ orders \in {f \in [AllOrders -> [status : {"pending"}, rlat : PickupLatitudes,
                                         rlon : {Some(3)}]] :
                      \A o \in AllOrders \ Orders : f[o] = PlacedOrder}
    /\ deliveries = [o \in AllOrders |-> NoRow]
    /\ availability \in DriverPools
    /\ jobs = [j \in Jobs |-> IdleJob]
    /\ now = 0
    /\ ENABLE_CELERY \in BOOLEAN
    /\ timeoutFired = [o \in AllOrders |-> 0]
    /\ reassignCalls = [o \in AllOrders |-> 0]

\* One confirmed order through its whole life: the assignment job and every
\* driver and admin endpoint.
Next ==
    \/ \E o \in Orders : ConfirmOrder(o)
    \/ \E d \in Drivers : GoOnline(d)
    \/ \E d \in Drivers : GoOffline(d)
    \/ \E d \in Drivers, o \in Orders : ApiAcceptDelivery(d, o)
    \/ \E d \in Drivers, o \in Orders : ApiRejectDelivery(d, o)
    \/ \E d \in Drivers, o \in Orders, s \in UpdatableStatuses :
          UpdateDeliveryStatus(d, o, s)
    \/ \E d \in Drivers, o \in Orders, s \in UpdatableStatuses :
          ApiUpdateDeliveryStatus(d, o, s)
    \/ \E d \in Drivers, o \in Orders : DriverAcceptDelivery(d, o)
    \/ \E d \in Drivers, o \in Orders : DriverMarkPickedUp(d, o)
    \/ \E d \in Drivers, o \in Orders : DriverMarkDelivered(d, o)
    \/ \E o \in Orders, d \in Drivers : AssignDriverManually(o, d)
    \/ \E j \in Jobs : PdaCheckExisting(j)
    \/ \E j \in Jobs : PdaMatch(j)
    \/ \E j \in Jobs : PdaWrite(j)

Spec == Init /\ [][Next]_vars

\* Assignments left unanswered while time passes: the timeout check.
NextClock ==
    \/ \E o \in Orders : ConfirmOrder(o)
    \/ \E d \in Drivers : GoOnline(d)
    \/ \E d \in Drivers : GoOffline(d)
    \/ \E d \in Drivers, o \in Orders : ApiAcceptDelivery(d, o)
    \/ \E d \in Drivers, o \in Orders : ApiRejectDelivery(d, o)
    \/ \E o \in Orders : CheckAssignmentTimeout(o)
    \/ \E j \in Jobs : PdaCheckExisting(j)
    \/ \E j \in Jobs : PdaMatch(j)
    \/ \E j \in Jobs : PdaWrite(j)
    \/ Tick

SpecClock == Init /\ [][NextClock]_vars

\* Repeated confirmations of one order by the vendor, each starting an
\* assignment job, with the drivers coming and going.
NextTrigger ==
    \/ \E o \in Orders, s \in OrderStatuses : VendorUpdateStatus(o, s)
    \/ \E d \in Drivers : GoOnline(d)
    \/ \E d \in Drivers : GoOffline(d)
    \/ \E j \in Jobs : PdaCheckExisting(j)
    \/ \E j \in Jobs : PdaMatch(j)
    \/ \E j \in Jobs : PdaWrite(j)

SpecTrigger == Init /\ [][NextTrigger]_vars

\* One confirmation and the job it starts, with drivers coming and going.
\* The worker runs a queued task, and a started thread or an inline call
\* runs to its end: the job steps are weakly fair.
JobStep == \E j \in Jobs : PdaCheckExisting(j) \/ PdaMatch(j) \/ PdaWrite(j)

NextFair ==
    \/ \E o \in Orders : ConfirmOrder(o)
    \/ \E d \in Drivers : GoOnline(d)
    \/ \E d \in Drivers : GoOffline(d)
    \/ JobStep

SpecFair == Init /\ [][NextFair]_vars /\ WF_vars(JobStep)

\* reassign_delivery on its own: deliveries assigned by the job or by the
\* admin, to drivers whose availability flag is set or not, then reassigned
\* at the same or a later time; an admin may deactivate a driver.
NextReassign ==
    \/ \E o \in Orders : ConfirmOrder(o)
    \/ \E d \in Drivers : GoOnline(d)
    \/ \E d \in Drivers : GoOffline(d)
    \/ \E d \in Drivers : DeactivateDriver(d)
    \/ \E o \in Orders, d \in Drivers : AssignDriverManually(o, d)
    \/ \E o \in Orders : ReassignDelivery(o)
    \/ JobStep
    \/ Tick

SpecReassign == Init /\ [][NextReassign]_vars

\* The matcher over pools that tell its rules apart. The pickup point is at
\* (6, 3); a pool gives each driver a latitude, a longitude and a rating
\* (in tenths): a far 4.8 with a near 4.2, equal ratings at two distances,
\* drivers at 10 and 11 km, a driver without latitude or without longitude
\* beside a located one, and a driver 17 km away on longitude 0.
MatchAvailability(lat, lon, rating) ==
    [InitialAvailability(lat, rating) EXCEPT !.current_longitude = lon]

MatchPool(a1, a2) == [d \in Drivers |-> IF d = "d1" THEN a1 ELSE a2]

MatchPools ==
    { MatchPool(MatchAvailability(Some(9), Some(3), 48),
                MatchAvailability(Some(7), Some(3), 42)),
      MatchPool(MatchAvailability(Some(9), Some(3), 48),
                MatchAvailability(Some(7), Some(3), 48)),
      MatchPool(MatchAvailability(Some(16), Some(3), 48),
                MatchAvailability(Some(17), Some(3), 48)),
      MatchPool(MatchAvailability(None, Some(3), 48),
                MatchAvailability(Some(15), Some(3), 48)),
      MatchPool(MatchAvailability(Some(7), None, 42),
                MatchAvailability(Some(9), Some(3), 48)),
      MatchPool(MatchAvailability(Some(20), Some(0), 48),
                MatchAvailability(Some(7), Some(3), 42)) }

InitMatch ==
    /\ orders = [o \in AllOrders |-> PlacedOrder]
    /\ deliveries = [o \in AllOrders |-> NoRow]
    /\ availability \in MatchPools
    /\ jobs = [j \in Jobs |-> IdleJob]
    /\ now = 0
    /\ ENABLE_CELERY \in BOOLEAN
    /\ timeoutFired = [o \in AllOrders |-> 0]
    /\ reassignCalls = [o \in AllOrders |-> 0]

SpecMatch == InitMatch /\ [][NextFair]_vars

\* Two orders confirmed one after the other or together, each starting its
\* own assignment job, with the drivers accepting what they are given.
InitTwo ==
    /\ orders = [o \in AllOrders |-> PlacedOrder]
    /\ deliveries = [o \in AllOrders |-> NoRow]
    /\ availability \in DriverPools
    /\ jobs = [j \in Jobs |-> IdleJob]
    /\ now = 0
    /\ ENABLE_CELERY \in BOOLEAN
    /\ timeoutFired = [o \in AllOrders |-> 0]
    /\ reassignCalls = [o \in AllOrders |-> 0]

NextTwo ==
    \/ \E o \in AllOrders : ConfirmOrder(o)
    \/ \E d \in Drivers : GoOnline(d)
    \/ \E d \in Drivers : GoOffline(d)
    \/ \E d \in Drivers, o \in AllOrders : ApiAcceptDelivery(d, o)
    \/ JobStep

SpecTwo == InitTwo /\ [][NextTwo]_vars

\* Requests that overlap: the order is confirmed and its delivery is either
\* still pending without a driver or assigned to d1, the drivers are online,
\* and the accept and reject handlers run their reads and their writes as
\* separate steps.
InitRace ==
    /\ orders = [o \in AllOrders |->
                   IF o \in Orders THEN [PlacedOrder EXCEPT !.status = "confirmed"]
                   ELSE PlacedOrder]
    /\ deliveries \in {[o \in AllOrders |-> IF o \in Orders THEN row ELSE NoRow] :
                          row \in {PendingRow, assign_to_driver(PendingRow, "d1", 0)}}
    /\ availability \in {[d \in Drivers |-> go_online(pool[d])] : pool \in DriverPools}
    /\ jobs = [j \in Jobs |-> IdleJob]
    /\ now = 0
    /\ ENABLE_CELERY \in BOOLEAN
    /\ timeoutFired = [o \in AllOrders |-> 0]
    /\ reassignCalls = [o \in AllOrders |-> 0]

NextRace ==
    \/ \E d \in Drivers : GoOnline(d)
    \/ \E d \in Drivers : GoOffline(d)
    \/ \E d \in Drivers, o \in Orders : ApiAcceptDelivery(d, o)
    \/ \E d \in Drivers, o \in Orders : AcceptBegin(d, o)
    \/ \E j \in Jobs : AcceptFinish(j)
    \/ \E d \in Drivers, o \in Orders : RejectBegin(d, o)
    \/ \E j \in Jobs : RejectFinish(j)

SpecRace == InitRace /\ [][NextRace]_vars

(* ------------------------------- claims ------------------------------- *)

FailureResults == {"No drivers online", "All drivers busy"}

\* C1: when two assignment jobs run concurrently for one confirmed order,
\* the order ends with one delivery row that has a driver, and only one of
\* the two jobs wrote the assignment: the other returns through the
\* idempotent "already assigned" path.
C1_SingleAssignmentWrite ==
    \A j \in Jobs, k \in Jobs :
        (j # k /\ jobs[j].order = jobs[k].order
         /\ jobs[j].pc = "done" /\ jobs[k].pc = "done"
         /\ jobs[j].result = "assigned" /\ jobs[k].result = "assigned")
        => /\ deliveries[jobs[j].order].exists
           /\ deliveries[jobs[j].order].driver # Null
           /\ ~(jobs[j].wrote /\ jobs[k].wrote)

\* C2: a call of process_delivery_assignment that finds a delivery with a
\* driver and a status other than pending returns "already assigned" and
\* leaves every delivery row (driver, status, assigned_at, the number of
\* rows) as it was.
C2_RepeatedCallIdempotent ==
    [][\A j \in Jobs :
         (jobs[j].pc = "start" /\ jobs'[j] # jobs[j]
          /\ deliveries[jobs[j].order].exists
          /\ deliveries[jobs[j].order].driver # Null
          /\ deliveries[jobs[j].order].status # "pending")
         => /\ jobs'[j].pc = "done"
            /\ jobs'[j].result = "already_assigned"
            /\ ~jobs'[j].retry
            /\ deliveries' = deliveries
            /\ availability' = availability]_vars

C2_Witness ==
    \E j \in Jobs :
        /\ jobs[j].pc = "done"
        /\ jobs[j].result = "already_assigned"
        /\ deliveries[jobs[j].order].status = "accepted"

\* C3: on every tier (queue, thread, inline), an assignment job that was
\* started leads to a delivery that either has a driver or is pending with
\* the "requires manual assignment" note.
C3_EventuallyAssignedOrManual ==
    \A j \in Jobs : \A o \in Orders :
        (jobs[j].pc = "start" /\ jobs[j].order = o)
        ~> (deliveries[o].exists
            /\ (deliveries[o].driver # Null
                \/ (deliveries[o].status = "pending"
                    /\ deliveries[o].driver_notes \in ManualNotes)))

\* C4: run_task_safe hands each piece of work to exactly one tier (queue,
\* background thread, inline call): never to none, never to two, and never
\* to a fallback tier when the queue accepted it.
C4_ExactlyOneTier ==
    \A j \in Jobs :
        jobs[j].pc # "idle"
        => /\ jobs[j].dispatch.queued + jobs[j].dispatch.thread
              + jobs[j].dispatch.inline = 1
           /\ (jobs[j].dispatch.queued = 1
               => jobs[j].dispatch.thread = 0 /\ jobs[j].dispatch.inline = 0)

C4_Witness ==
    /\ ENABLE_CELERY
    /\ \E j \in Jobs : jobs[j].pc # "idle" /\ jobs[j].dispatch.inline = 1

\* C5: a transition operation requested from a status that is not its
\* predecessor is rejected and changes nothing: a delivery becomes assigned
\* only from pending, accepted only from assigned (or from pending when one
\* request assigns and accepts), picked_up only from accepted, en_route only
\* from picked_up, delivered only from en_route or arrived, and a driver's
\* delivery count grows only in a step that delivers.
LegalTransition(from, to) ==
    \/ to = "assigned" /\ from = "pending"
    \/ to = "accepted" /\ from \in {"assigned", "pending"}
    \/ to = "picked_up" /\ from = "accepted"
    \/ to = "en_route" /\ from = "picked_up"
    \/ to = "delivered" /\ from \in {"en_route", "arrived"}

TransitionTargets == {"assigned", "accepted", "picked_up", "en_route", "delivered"}

C5_InvalidTransitionRejected ==
    [][/\ \A o \in Orders :
            (deliveries'[o].status # deliveries[o].status
             /\ deliveries'[o].status \in TransitionTargets)
            => LegalTransition(deliveries[o].status, deliveries'[o].status)
       /\ \A d \in Drivers :
            availability'[d].total_deliveries # availability[d].total_deliveries
            => \E o \in Orders :
                  /\ deliveries[o].driver = d
                  /\ deliveries'[o].status = "delivered"
                  /\ LegalTransition(deliveries[o].status, "delivered")]_vars

\* C6: a delivery has a driver only while its status is assigned, accepted,
\* picked_up, en_route or arrived; a pending, delivered, cancelled or failed
\* delivery has none.
DriverStatuses == {"assigned", "accepted", "picked_up", "en_route", "arrived"}

C6_DriverOnlyWhileInProgress ==
    \A o \in Orders :
        (deliveries[o].exists /\ deliveries[o].driver # Null)
        => deliveries[o].status \in DriverStatuses

\* C7: the driver of a delivery that is accepted, picked_up, en_route or
\* arrived is not available, whatever requests (going online and offline
\* among them) have been served.
C7_BusyDriverNotAvailable ==
    \A o \in Orders :
        (deliveries[o].exists /\ deliveries[o].driver # Null
         /\ deliveries[o].status \in {"accepted", "picked_up", "en_route", "arrived"})
        => ~availability[deliveries[o].driver].is_available

\* C8: every run of check_assignment_timeout on a delivery that is still
\* assigned once the timeout has passed calls reassign_delivery exactly once.
C8_TimeoutReassignsOnce ==
    \A o \in Orders : reassignCalls[o] = timeoutFired[o]

\* C9: an attempt that matches no driver returns retry = true and leaves the
\* delivery rows untouched while current_retry < max_retries; from
\* current_retry = max_retries on it returns retry = false and the delivery
\* exists, pending, with the manual-assignment note.
NoDriverMatched(o) ==
    \/ online_drivers_count(availability) = 0
    \/ /\ ~(deliveries[o].exists /\ deliveries[o].driver # Null)
       /\ PickupKnown(orders[o])
       /\ find_available_drivers(availability, deliveries, orders[o].rlat,
                                 orders[o].rlon, radius_km) = <<>>

AttemptNumber(job) == IF job.dispatch.queued = 1 THEN job.retries ELSE 0

C9_RetryThenManual ==
    [][\A j \in Jobs :
         (jobs[j].pc = "checked" /\ jobs'[j] # jobs[j]
          /\ NoDriverMatched(jobs[j].order))
         => /\ jobs'[j].result \in FailureResults
            /\ IF AttemptNumber(jobs[j]) < max_retries
               THEN jobs'[j].retry /\ deliveries' = deliveries
               ELSE /\ ~jobs'[j].retry
                    /\ jobs'[j].pc = "done"
                    /\ deliveries'[jobs[j].order].exists
                    /\ deliveries'[jobs[j].order].status = "pending"
                    /\ deliveries'[jobs[j].order].driver_notes \in ManualNotes]_vars

C9_Witness ==
    \E j \in Jobs :
        /\ jobs[j].pc = "done"
        /\ jobs[j].retries = max_retries
        /\ jobs[j].result = "All drivers busy"
        /\ ~jobs[j].retry
        /\ online_drivers_count(availability) > 0
        /\ deliveries[jobs[j].order].driver_notes = NoteBusy

\* C10: an automatic assignment (the write of assign_delivery_to_driver, and
\* reassign_delivery when it picks a driver other than the one released)
\* sets the status to assigned and leaves the chosen driver's is_available
\* as it was; a step that makes the delivery accepted leaves its driver
\* with is_available = false.
C10_BusyOnlyOnAccept ==
    [][/\ \A j \in Jobs :
            (jobs[j].pc = "write" /\ jobs'[j].wrote /\ jobs'[j] # jobs[j])
            => /\ deliveries'[jobs[j].order].status = "assigned"
               /\ deliveries'[jobs[j].order].driver = jobs[j].best
               /\ availability' = availability
       /\ \A d \in Drivers, o \in Orders :
            (ApiRejectDelivery(d, o) /\ deliveries'[o].driver \notin {Null, d})
            => /\ deliveries'[o].status = "assigned"
               /\ availability'[deliveries'[o].driver].is_available
                    = availability[deliveries'[o].driver].is_available
       /\ \A o \in Orders :
            (deliveries'[o].status = "accepted" /\ deliveries[o].status # "accepted")
            => /\ deliveries'[o].driver # Null
               /\ ~availability'[deliveries'[o].driver].is_available]_vars

C10_Witness ==
    \E j \in Jobs, o \in Orders :
        /\ jobs[j].order = o /\ jobs[j].wrote /\ jobs[j].pc = "done"
        /\ deliveries[o].status = "accepted"
        /\ deliveries[o].driver # Null
        /\ ~availability[deliveries[o].driver].is_available

\* C11: reassign_delivery on a delivery whose driver is online makes that
\* driver available before it searches: the driver it assigns (or the
\* pending, driverless outcome) is the one the search finds in the state in
\* which the previous driver is already released.
C11_ReleaseBeforeSearch ==
    [][\A o \in Orders :
         (ReassignDelivery(o) /\ deliveries[o].driver # Null
          /\ availability[deliveries[o].driver].is_online
          /\ PickupKnown(orders[o]))
         => LET prev == deliveries[o].driver
                released == [availability EXCEPT ![prev].is_available = TRUE]
                cands == find_available_drivers(released, deliveries,
                                                orders[o].rlat, orders[o].rlon,
                                                radius_km)
            IN /\ availability'[prev].is_available
               /\ IF cands = <<>>
                  THEN deliveries'[o].driver = Null /\ deliveries'[o].status = "pending"
                  ELSE /\ deliveries'[o].driver = cands[1].driver
                       /\ deliveries'[o].status = "assigned"]_vars

\* A reassignment that gave the delivery back to a driver who was marked
\* busy by the manual assignment, and was the only one online.
C11_Witness ==
    \E o \in Orders :
        /\ reassignCalls[o] > 0
        /\ deliveries[o].status = "assigned"
        /\ deliveries[o].driver # Null
        /\ availability[deliveries[o].driver].is_available
        /\ online_drivers_count(availability) = 1
        /\ \A j \in Jobs : ~jobs[j].wrote

\* The candidates the matcher returns for an order in the current state.
CandidatesNow(o) ==
    find_available_drivers(availability, deliveries, orders[o].rlat,
                           orders[o].rlon, radius_km)

\* C12: the candidate list is ordered by rating descending and, among equal
\* ratings, by distance ascending (a higher-rated candidate comes first
\* whatever the distances), and the assignment takes the candidate at
\* index 0.
C12_RatingThenDistance ==
    [][/\ \A o \in Orders :
            PickupKnown(orders[o])
            => \A i \in 1..Len(CandidatesNow(o)), k \in 1..Len(CandidatesNow(o)) :
                 i < k =>
                   \/ CandidatesNow(o)[i].rating > CandidatesNow(o)[k].rating
                   \/ /\ CandidatesNow(o)[i].rating = CandidatesNow(o)[k].rating
                      /\ CandidatesNow(o)[i].distance <= CandidatesNow(o)[k].distance
       /\ \A j \in Jobs :
            (jobs[j].pc = "checked" /\ jobs'[j].pc = "write")
            => jobs'[j].best = CandidatesNow(jobs[j].order)[1].driver]_vars

\* The job chose the 4.8-rated driver although the 4.2-rated one is nearer.
C12_Witness ==
    \E j \in Jobs :
        /\ jobs[j].pc = "write"
        /\ Len(CandidatesNow(jobs[j].order)) = 2
        /\ CandidatesNow(jobs[j].order)[1].rating > CandidatesNow(jobs[j].order)[2].rating
        /\ CandidatesNow(jobs[j].order)[1].distance > CandidatesNow(jobs[j].order)[2].distance
        /\ jobs[j].best = CandidatesNow(jobs[j].order)[1].driver

\* The drivers in the candidate list.
CandidateDrivers(o) ==
    {CandidatesNow(o)[i].driver : i \in 1..Len(CandidatesNow(o))}

\* C13: an eligible driver whose latitude and longitude are both non-null is
\* a candidate if and only if the distance to the pickup point is
\* <= radius_km.
C13_RadiusInclusive ==
    \A o \in Orders, d \in Drivers :
        (/\ PickupKnown(orders[o])
         /\ TrulyAvailable(availability, deliveries, d)
         /\ availability[d].current_latitude # None
         /\ availability[d].current_longitude # None)
        => (d \in CandidateDrivers(o)
            <=> calculate_distance(orders[o].rlat[1], orders[o].rlon[1],
                                   availability[d].current_latitude[1],
                                   availability[d].current_longitude[1])
                <= radius_km)

\* C14: an eligible driver whose latitude or longitude is null is a
\* candidate, at the synthetic distance radius_km * 0.8.
C14_UnknownLocationIncluded ==
    \A o \in Orders, d \in Drivers :
        (/\ PickupKnown(orders[o])
         /\ TrulyAvailable(availability, deliveries, d)
         /\ (availability[d].current_latitude = None
             \/ availability[d].current_longitude = None))
        => \E i \in 1..Len(CandidatesNow(o)) :
              /\ CandidatesNow(o)[i].driver = d
              /\ 10 * CandidatesNow(o)[i].distance = 8 * radius_km

\* A delivery assigned by the job to a driver who has no latitude, with both
\* drivers of the pool online.
C14_Witness ==
    \E o \in Orders, j \in Jobs :
        /\ jobs[j].order = o /\ jobs[j].wrote
        /\ deliveries[o].status = "assigned"
        /\ deliveries[o].driver # Null
        /\ availability[deliveries[o].driver].current_latitude = None
        /\ \A d \in Drivers : availability[d].is_online

\* C15: for an order whose restaurant has no latitude or no longitude, the
\* first attempt ends with a non-retryable failure (retry = false) and no
\* driver on the delivery, whatever the driver pool contains.
C15_MissingPickupNotRetryable ==
    [][\A j \in Jobs :
         (/\ jobs[j].pc = "checked" /\ jobs'[j] # jobs[j]
          /\ AttemptNumber(jobs[j]) = 0
          /\ (orders[jobs[j].order].rlat = None \/ orders[jobs[j].order].rlon = None)
          /\ deliveries[jobs[j].order].driver = Null)
         => /\ jobs'[j].result \notin {"assigned", "already_assigned"}
            /\ ~jobs'[j].retry
            /\ jobs'[j].pc = "done"
            /\ deliveries'[jobs[j].order].driver = Null]_vars

SuccessResults == {"assigned", "already_assigned"}

\* C16: run_task_safe returns true when the task was queued and when the
\* thread was started; when it ran sync_func inline it returns true if and
\* only if that inline call succeeded.
C16_ReturnsInlineOutcome ==
    \A j \in Jobs :
        jobs[j].pc = "done"
        => LET returned == run_task_safe_returns(jobs[j].dispatch,
                                                 SyncFuncRaises(jobs[j].result))
           IN IF jobs[j].dispatch.inline = 1
              THEN returned <=> jobs[j].result \in SuccessResults
              ELSE returned

C18_RejectingDriverExcluded ==
    [][\A d \in Drivers, o \in Orders :
         (ApiRejectDelivery(d, o) /\ PickupKnown(orders[o]))
         => deliveries'[o].driver # d]_vars

\* C19: when the admin assigned a delivery while an automatic attempt was
\* between its read and its write, the attempt detects it and leaves the
\* admin's driver on the delivery.
C19_LoserDoesNotOverwrite ==
    [][\A j \in Jobs :
         (/\ jobs[j].pc = "write" /\ jobs'[j] # jobs[j]
          /\ jobs[j].snap.driver = Null
          /\ deliveries[jobs[j].order].driver # Null
          /\ deliveries[jobs[j].order].status = "assigned")
         => deliveries'[jobs[j].order].driver = deliveries[jobs[j].order].driver]_vars

\* C20: a step that makes a driver available again (completion, rejection,
\* reassignment) does so only if the driver is online; no release makes an
\* offline driver available.
C20_ReleaseOnlyIfOnline ==
    [][\A d \in Drivers :
         (~availability[d].is_available /\ availability'[d].is_available)
         => availability'[d].is_online]_vars

\* C21: after any sequence of operations through the status-update
\* endpoints a driver's successful_deliveries equals the number of that
\* driver's deliveries in status delivered: each delivery marked delivered
\* counts exactly once.
C21_DeliveredCountedOnce ==
    \A d \in Drivers :
        availability[d].successful_deliveries
          = Cardinality({o \in Orders : /\ deliveries[o].exists
                                        /\ deliveries[o].driver = d
                                        /\ deliveries[o].status = "delivered"})

\* C22: delivered, cancelled and failed are terminal: no step changes the
\* status of a delivery that is in one of them.
TerminalStatuses == {"delivered", "cancelled", "failed"}

C22_TerminalStatusKept ==
    [][\A o \in Orders :
         (deliveries[o].exists /\ deliveries[o].status \in TerminalStatuses)
         => deliveries'[o].status = deliveries[o].status]_vars

\* C23: find_available_drivers returns a driver only if the driver is
\* online, verified and active and is flagged is_available or has no
\* delivery in an active status; and every such driver who is within the
\* radius or has no known location is returned.
C23_ReturnedIffEligible ==
    \A o \in Orders, d \in Drivers :
        PickupKnown(orders[o]) =>
          LET a == availability[d]
              active == {p \in Orders : /\ deliveries[p].exists
                                        /\ deliveries[p].driver = d
                                        /\ deliveries[p].status \in
                                             {"assigned", "accepted", "picked_up",
                                              "en_route"}}
              eligible == /\ a.is_online /\ a.is_verified_driver /\ a.is_active
                          /\ (a.is_available \/ active = {})
              located == a.current_latitude # None /\ a.current_longitude # None
              within == calculate_distance(orders[o].rlat[1], orders[o].rlon[1],
                                           a.current_latitude[1],
                                           a.current_longitude[1]) <= radius_km
          IN /\ d \in CandidateDrivers(o) => eligible
             /\ (eligible /\ (~located \/ within)) => d \in CandidateDrivers(o)

\* A driver whose is_available flag is false but who holds no active
\* delivery is returned, while an online driver who lost the verification
\* is not.
C23_Witness ==
    \E o \in Orders, d \in Drivers, e \in Drivers :
        /\ PickupKnown(orders[o])
        /\ availability[d].is_online
        /\ ~availability[d].is_available
        /\ active_delivery_count(d, deliveries) = 0
        /\ d \in CandidateDrivers(o)
        /\ availability[e].is_online
        /\ ~availability[e].is_verified_driver
        /\ e \notin CandidateDrivers(o)

\* C24: a notification that fails after the delivery has been written as
\* assigned does not roll the assignment back: the delivery keeps the chosen
\* driver and status assigned, and a later attempt of the same job that
\* finds the assignment in place leaves the delivery unchanged and answers
\* already_assigned.
C24_NotifyFailureKeepsAssignment ==
    [][\A j \in Jobs :
         LET o == jobs[j].order
         IN /\ (/\ jobs[j].pc = "write"
                /\ jobs'[j] # jobs[j]
                /\ jobs'[j].wrote
                /\ jobs'[j].result = "exception")
               => /\ deliveries'[o].exists
                  /\ deliveries'[o].driver = jobs[j].best
                  /\ deliveries'[o].status = "assigned"
            /\ (/\ jobs[j].pc = "start"
                /\ jobs[j].wrote
                /\ jobs[j].result = "exception"
                /\ jobs'[j] # jobs[j]
                /\ deliveries[o].status = "assigned"
                /\ deliveries[o].driver # Null)
               => /\ deliveries' = deliveries
                  /\ jobs'[j].result = "already_assigned"]_vars

\* The retry after a failed notification has run and found the assignment.
C24_Witness ==
    \E j \in Jobs :
        /\ jobs[j].wrote
        /\ jobs[j].retries > 0
        /\ jobs[j].result = "already_assigned"
        /\ deliveries[jobs[j].order].status = "assigned"
        /\ deliveries[jobs[j].order].driver # Null

\* The candidates reassign_delivery finds for an order: the matcher's result
\* once the previous driver's row has been released.
ReassignCandidates(o) ==
    find_available_drivers(
        [availability EXCEPT ![deliveries[o].driver].is_available = TRUE],
        deliveries, orders[o].rlat, orders[o].rlon, radius_km)

\* C25: when reassign_delivery finds no candidate it leaves the delivery
\* pending with a null driver and returns null; when it finds one the
\* delivery ends assigned to the first-ranked candidate with assigned_at set
\* to the time of the call.
C25_ReassignOutcome ==
    [][\A o \in Orders :
         (ReassignDelivery(o) /\ PickupKnown(orders[o]))
         => IF ReassignCandidates(o) = <<>>
            THEN /\ deliveries'[o].status = "pending"
                 /\ deliveries'[o].driver = Null
                 /\ reassign_delivery_returns(availability, deliveries, o) = Null
            ELSE /\ deliveries'[o].status = "assigned"
                 /\ deliveries'[o].driver = ReassignCandidates(o)[1].driver
                 /\ deliveries'[o].assigned_at = Some(now)
                 /\ reassign_delivery_returns(availability, deliveries, o) # Null]_vars

\* A reassignment later than the first assignment gave the delivery to a
\* driver with a new assigned_at.
C25_Witness ==
    \E o \in Orders :
        /\ reassignCalls[o] > 0
        /\ deliveries[o].status = "assigned"
        /\ deliveries[o].driver # Null
        /\ deliveries[o].assigned_at = Some(TickSeconds)

\* C26: in every reachable state each driver is the driver of at most one
\* delivery whose status is assigned, accepted, picked_up or en_route.
C26_OneActiveDeliveryPerDriver ==
    \A d \in Drivers :
        Cardinality({o \in AllOrders :
                       /\ deliveries[o].exists
                       /\ deliveries[o].driver = d
                       /\ deliveries[o].status \in {"assigned", "accepted",
                                                    "picked_up", "en_route"}}) <= 1

\* C27: once accept_delivery has committed for a delivery, a reject that read
\* the delivery while it was still assigned and writes afterwards does not
\* change the delivery's driver, does not set its status back to assigned or
\* pending, and does not set the accepting driver's is_available to true.
C27_AcceptNotUndone ==
    [][\A j \in Jobs :
         LET o == jobs[j].order
         IN (/\ jobs[j].pc = "rejecting"
             /\ jobs'[j].pc # "rejecting"
             /\ jobs[j].snap.status = "assigned"
             /\ deliveries[o].status = "accepted")
            => /\ deliveries'[o].driver = deliveries[o].driver
               /\ deliveries'[o].status \notin {"assigned", "pending"}
               /\ ~availability[deliveries[o].driver].is_available
                    => ~availability'[deliveries[o].driver].is_available]_vars

\* C28: when a driver was assigned to the delivery between the job's
\* existing-delivery check and its marking for manual assignment, the job
\* does not reset the delivery to pending, and the delivery does not end
\* with status pending together with a non-null driver.
C28_ManualMarkKeepsAssignment ==
    [][\A j \in Jobs :
         LET o == jobs[j].order
         IN (/\ jobs[j].pc = "checked"
             /\ jobs'[j] # jobs[j]
             /\ deliveries[o].driver # Null
             /\ deliveries[o].status # "pending")
            => /\ deliveries'[o].status = deliveries[o].status
               /\ ~(deliveries'[o].status = "pending" /\ deliveries'[o].driver # Null)]_vars

\* C29: an assignment attempt that runs after the order has become
\* preparing, ready, out_for_delivery, delivered or cancelled does not set
\* the order's status back to confirmed, and does not give a driver to the
\* delivery of a cancelled order.
PastConfirmed == {"preparing", "ready", "out_for_delivery", "delivered", "cancelled"}

C29_DispatchNeverMovesOrderBack ==
    [][\A j \in Jobs :
         LET o == jobs[j].order
         IN (/\ jobs[j].pc \in {"start", "checked", "write"}
             /\ jobs'[j] # jobs[j]
             /\ orders[o].status \in PastConfirmed)
            => /\ orders'[o].status # "confirmed"
               /\ orders[o].status = "cancelled"
                    => deliveries'[o].driver \in {Null, deliveries[o].driver}]_vars

\* C30: when two drivers concurrently accept the same pending, unassigned
\* delivery, the request that writes second fails: it leaves the delivery
\* with the driver who got it and leaves its own driver's is_available as it
\* was.
C30_SecondAcceptFails ==
    [][\A j \in Jobs :
         LET o == jobs[j].order
         IN (/\ jobs[j].pc = "accepting"
             /\ jobs'[j].pc # "accepting"
             /\ jobs[j].snap.status = "pending"
             /\ jobs[j].snap.driver = Null
             /\ deliveries[o].driver \notin {Null, jobs[j].best})
            => /\ deliveries'[o] = deliveries[o]
               /\ availability'[jobs[j].best].is_available
                    = availability[jobs[j].best].is_available]_vars

====
